---- MODULE Spec2Model ----
(***************************************************************************)
(* Reservation / car-availability coordinator of the car dealership        *)
(* backend: ReservationService (services/reservation_service.py) behind    *)
(* its FastAPI routes (routers/reservations_router.py), with the request    *)
(* schemas of models/schema.py and the tables of models/database.py.        *)
(*                                                                         *)
(* Values keep the source's spelling:                                      *)
(*   disponibilite : "disponible" | "loue" | "vendu"                       *)
(*   statut        : "en_attente" | "confirmee" | "annulee" | "terminee"   *)
(*   type_transaction : "vente" | "location"                               *)
(* The free-text column `notes` and the timestamps take part in no         *)
(* decision and are left out.                                              *)
(***************************************************************************)
EXTENDS Integers, FiniteSets, Sequences, TLC

\* ---------------------------------------------------------------- bounds
NumCars == 2
MaxReservations == 2
MaxDate == 3
MaxPrice == 1

\* The clock value datetime.now() returns during the explored window.
Now == 1

\* Absent values of optional request fields: a key left out of the body
\* (Unset) and a key sent as null (Null).  A NULL column is Null.
Unset == -2
Null == -1

CarIds == 1 .. NumCars
\* A car id that no row has.
NoSuchCar == 0
Dates == 0 .. MaxDate
Prices == 0 .. MaxPrice
ReservationIds == 1 .. MaxReservations

\* users table: one client and one vendeur, both active.
Clients == {1}
Vendeurs == {2}
Users == Clients \cup Vendeurs
mutEveryUserIsVendeur(u) == "vendeur"

Role(u) == IF u \in Vendeurs THEN "vendeur" ELSE "client"

CarAvailability == {"disponible", "loue", "vendu"}
TransactionType == {"vente", "location"}
ReservationStatus == {"en_attente", "confirmee", "annulee", "terminee"}

VARIABLES
    cars,           \* cars table: id -> [disponibilite, is_active]
    reservations,   \* reservations table: id -> row
    nextId,         \* AUTO_INCREMENT of reservations.id
    last,           \* the last request handled and the response it got
    sess,           \* the sessions of requests handled at the same time
    history         \* the requests of a scenario and what each one left

vars == <<cars, reservations, nextId, last, sess, history>>

\* ------------------------------------------------------- pure helpers
ActiveStatuses == {"en_attente", "confirmee"}

\* NULL for an absent end date, whether the key was left out or sent null.
Stored(v) == IF v = Unset THEN Null ELSE v

mutStartInPastAllowed(date_debut, date_fin, type_transaction, now) ==
    IF type_transaction = "location"
    THEN date_fin # Null /\ date_fin > date_debut
    ELSE TRUE

mutEndMayEqualStart(date_debut, date_fin, type_transaction, now) ==
    IF date_debut < now THEN FALSE
    ELSE IF type_transaction = "location"
         THEN date_fin # Null /\ date_fin >= date_debut
         ELSE TRUE

\* utils/helpers.py validate_reservation_dates, with `now` the clock read.
validate_reservation_dates(date_debut, date_fin, type_transaction, now) ==
    IF date_debut < now THEN FALSE
    ELSE IF type_transaction = "location"
         THEN IF date_fin = Null THEN FALSE
              ELSE IF date_fin <= date_debut THEN FALSE
              ELSE TRUE
         ELSE TRUE

\* ReservationBase: prix_final = Field(..., gt=0).
PrixFieldOk(prix_final) == prix_final > 0

\* ReservationBase.validate_date_fin.  The validator runs on a value that was
\* sent (null included), not on the default of a key left out.
validate_date_fin(date_fin, date_debut, type_transaction) ==
    IF date_fin = Unset THEN TRUE
    ELSE IF type_transaction = "location"
         THEN IF date_fin = Null THEN FALSE
              ELSE IF date_fin <= date_debut THEN FALSE
              ELSE TRUE
         ELSE TRUE

\* Request-body validation of POST /api/reservations (ReservationCreate).
ReservationCreateOk(req) ==
    /\ PrixFieldOk(req.prix_final)
    /\ validate_date_fin(req.date_fin, req.date_debut, req.type_transaction)

\* The and_(...) of the conflict query in create_reservation: a row overlaps
\* the requested period; a NULL date_fin compares to NULL, which is not true.
mutOverlapsClosed(r, date_debut, date_fin) ==
    /\ r.date_fin # Null
    /\ r.date_debut <= date_fin
    /\ r.date_fin >= date_debut

Overlaps(r, date_debut, date_fin) ==
    /\ r.date_fin # Null
    /\ r.date_debut < date_fin
    /\ r.date_fin > date_debut

\* The count() of the conflict query in create_reservation.
existing_reservations(res, car_id, date_debut, date_fin) ==
    Cardinality({ i \in DOMAIN res :
        /\ res[i].car_id = car_id
        /\ res[i].type_transaction = "location"
        /\ res[i].statut \in ActiveStatuses
        /\ Overlaps(res[i], date_debut, date_fin) })

mutPendingCanBeCompleted(statut) ==
    CASE statut = "en_attente" -> {"confirmee", "annulee", "terminee"}
      [] statut = "confirmee" -> {"terminee", "annulee"}
      [] OTHER -> {}

mutTerminalTargetRepeats(statut) ==
    CASE statut = "en_attente" -> {"confirmee", "annulee"}
      [] statut = "confirmee" -> {"terminee", "annulee"}
      [] statut = "annulee" -> {"annulee"}
      [] statut = "terminee" -> {"terminee"}
      [] OTHER -> {}

\* valid_transitions of update_reservation_status.
valid_transitions(statut) ==
    CASE statut = "en_attente" -> {"confirmee", "annulee"}
      [] statut = "confirmee" -> {"terminee", "annulee"}
      [] statut = "annulee" -> {}
      [] statut = "terminee" -> {}
      [] OTHER -> {}

\* ------------------------------------------------- session and commit
\* A handler works on the rows its session loaded (the staged tables) and
\* ends with db.commit(); when the commit raises, the except branch calls
\* db.rollback() and answers 500.  A handler that raises before its commit
\* leaves the session to get_db, whose db.close() discards the staged rows.
DB(c, r, n) == [cars |-> c, reservations |-> r, nextId |-> n]

mutRollbackKeepsReservations(persisted, staged) ==
    [persisted EXCEPT !.reservations = staged.reservations,
                      !.nextId = staged.nextId]

Rollback(persisted, staged) == persisted

Commit(persisted, staged, commitOk) ==
    IF commitOk THEN staged ELSE Rollback(persisted, staged)

Outcome(result, db, rid) == [result |-> result, db |-> db, rid |-> rid]

\* create_reservation: `if car.disponibilite != "disponible"`.
mutOnlyRentedIsUnavailable(car) == car.disponibilite = "loue"

mutCarNeverUnavailable(car) == FALSE

car_not_available(car) == car.disponibilite # "disponible"

\* create_reservation, "Mettre a jour le statut de la voiture": the car's
\* disponibilite once the reservation is added.
mutCreateAlwaysRents(type_transaction, current) == "loue"

disponibilite_after_create(type_transaction, current) ==
    IF type_transaction = "vente" THEN "vendu"
    ELSE IF type_transaction = "location" THEN "loue"
    ELSE current

\* update_reservation_status, "Mettre a jour la disponibilite de la voiture
\* selon le nouveau statut".
mutCompletedSaleFreesCar(new_status, type_transaction, current) ==
    IF new_status = "annulee" THEN "disponible"
    ELSE IF new_status = "terminee" THEN "disponible"
    ELSE current

mutCompletedRentalStaysRented(new_status, type_transaction, current) ==
    IF new_status = "annulee" THEN "disponible" ELSE current

disponibilite_after_status(new_status, type_transaction, current) ==
    IF new_status = "annulee" THEN "disponible"
    ELSE IF new_status = "terminee" /\ type_transaction = "location"
         THEN "disponible"
    ELSE current

\* cancel_reservation, "Remettre la voiture disponible".
mutCancelKeepsSold(current) ==
    IF current = "vendu" THEN current ELSE "disponible"

disponibilite_after_cancel(current) == "disponible"

\* -------------------------------------------------------------- create
\* create_reservation: the car query, Car.id == car_id and is_active.
mutCarQueryIgnoresIsActive(db_cars, car_id) == car_id \in DOMAIN db_cars

car_found(db_cars, car_id) ==
    /\ car_id \in DOMAIN db_cars
    /\ db_cars[car_id].is_active

\* ReservationService.create_reservation (the service, after the body passed
\* ReservationCreate).
ReservationService_create_reservation(db, req, user_id, commitOk) ==
    LET date_fin == Stored(req.date_fin)
    IN  IF ~car_found(db.cars, req.car_id) THEN Outcome("NotFound", db, 0)
        ELSE IF car_not_available(db.cars[req.car_id])
             THEN Outcome("InvalidState", db, 0)
        ELSE IF ~validate_reservation_dates(req.date_debut, date_fin,
                                            req.type_transaction, Now)
             THEN Outcome("ValidationError", db, 0)
        ELSE IF /\ req.type_transaction = "location"
                /\ date_fin # Null
                /\ existing_reservations(db.reservations, req.car_id,
                                         req.date_debut, date_fin) > 0
             THEN Outcome("ConflictError", db, 0)
        ELSE IF req.prix_final <= 0 THEN Outcome("ValidationError", db, 0)
        ELSE
            LET id == db.nextId
                db_reservation ==
                    [car_id |-> req.car_id,
                     user_id |-> user_id,
                     type_transaction |-> req.type_transaction,
                     date_debut |-> req.date_debut,
                     date_fin |-> date_fin,
                     prix_final |-> req.prix_final,
                     statut |-> "en_attente"]
                staged ==
                    DB([db.cars EXCEPT ![req.car_id].disponibilite =
                            disponibilite_after_create(req.type_transaction, @)],
                       db.reservations @@ (id :> db_reservation),
                       id + 1)
            IN  IF commitOk
                THEN Outcome("ok", Commit(db, staged, commitOk), id)
                ELSE Outcome("PersistenceError", Commit(db, staged, commitOk), 0)

\* POST /api/reservations/ : any active user; the body is validated first.
create_reservation(db, req, user_id, commitOk) ==
    IF ~ReservationCreateOk(req) THEN Outcome("ValidationError", db, 0)
    ELSE ReservationService_create_reservation(db, req, user_id, commitOk)

\* ---------------------------------------------------- transition_status
\* ReservationService.update_reservation_status.
ReservationService_update_reservation_status(db, reservation_id, new_status, user_role, commitOk) ==
    IF user_role # "vendeur" THEN Outcome("PermissionError", db, reservation_id)
    ELSE IF reservation_id \notin DOMAIN db.reservations
         THEN Outcome("NotFound", db, reservation_id)
    ELSE
        LET reservation == db.reservations[reservation_id]
        IN  IF new_status \notin valid_transitions(reservation.statut)
            THEN Outcome("InvalidTransition", db, reservation_id)
            ELSE
                LET staged ==
                        DB([db.cars EXCEPT ![reservation.car_id].disponibilite =
                                disponibilite_after_status(
                                    new_status, reservation.type_transaction, @)],
                           [db.reservations EXCEPT
                                ![reservation_id].statut = new_status],
                           db.nextId)
                IN  Outcome(IF commitOk THEN "ok" ELSE "PersistenceError",
                            Commit(db, staged, commitOk), reservation_id)

\* utils/auth.py require_role("vendeur"), the dependency of the routes that
\* are for vendeurs only.
require_vendeur(role) == role = "vendeur"

\* PATCH /api/reservations/{id}/status : require_vendeur, then the body
\* (StatusUpdate: statut must be a ReservationStatus), then the service.
update_reservation_status(db, reservation_id, new_status, user_id, commitOk) ==
    IF ~require_vendeur(Role(user_id))
    THEN Outcome("PermissionError", db, reservation_id)
    ELSE IF new_status \notin ReservationStatus
         THEN Outcome("ValidationError", db, reservation_id)
    ELSE ReservationService_update_reservation_status(
             db, reservation_id, new_status, Role(user_id), commitOk)

\* -------------------------------------------------------------- cancel
\* ReservationService.cancel_reservation, called by
\* POST /api/reservations/{id}/cancel with the current user's id and role.
\* "Verifier les permissions": a client cancels only their own reservation.
mutAnyoneMayCancel(user_role, owner_id, user_id) == FALSE

cancel_forbidden(user_role, owner_id, user_id) ==
    user_role = "client" /\ owner_id # user_id

\* "Verifier que la reservation peut etre annulee".
mutOnlyCancelledIsFinal(statut) == statut = "annulee"

cancel_refused(statut) == statut \in {"annulee", "terminee"}

cancel_reservation(db, reservation_id, user_id, user_role, commitOk) ==
    IF reservation_id \notin DOMAIN db.reservations
    THEN Outcome("NotFound", db, reservation_id)
    ELSE
        LET reservation == db.reservations[reservation_id]
        IN  IF cancel_forbidden(user_role, reservation.user_id, user_id)
            THEN Outcome("PermissionError", db, reservation_id)
            ELSE IF cancel_refused(reservation.statut)
                 THEN Outcome("InvalidState", db, reservation_id)
            ELSE
                LET staged ==
                        DB(IF reservation.car_id \in DOMAIN db.cars
                           THEN [db.cars EXCEPT
                                    ![reservation.car_id].disponibilite =
                                        disponibilite_after_cancel(@)]
                           ELSE db.cars,
                           [db.reservations EXCEPT
                                ![reservation_id].statut = "annulee"],
                           db.nextId)
                IN  Outcome(IF commitOk THEN "ok" ELSE "PersistenceError",
                            Commit(db, staged, commitOk), reservation_id)

\* -------------------------------------------------------------- update
\* A ReservationUpdate body.  Every key is optional: "unset" / Unset is a key
\* left out, "null" / Null a key sent as null.
IsValue(v) == v # Unset /\ v # Null
IsWord(v) == v # "unset" /\ v # "null"

\* ReservationUpdate: prix_final = Field(None, gt=0).
ReservationUpdateOk(update_data) ==
    IsValue(update_data.prix_final) => update_data.prix_final > 0

\* "Verifier les permissions": a client updates only their own reservation.
update_forbidden(user_role, owner_id, user_id) ==
    user_role = "client" /\ owner_id # user_id

\* "Les clients ne peuvent modifier que les reservations en attente".
mutClientUpdatesUnlessFinal(user_role, statut) ==
    user_role = "client" /\ statut \in {"annulee", "terminee"}

update_refused(user_role, statut) ==
    user_role = "client" /\ statut # "en_attente"

\* "Mettre a jour les champs fournis": the fields of ReservationUpdate are
\* type_transaction, date_debut, date_fin, prix_final and statut; each one
\* sent with a value is written, the others and the columns that are no
\* field of the body (car_id, user_id) keep their value.
mutUpdateMovesToOtherCar(reservation, update_data) ==
    [car_id |-> IF reservation.car_id = 1 THEN NumCars ELSE 1,
     user_id |-> reservation.user_id,
     type_transaction |-> reservation.type_transaction,
     date_debut |-> reservation.date_debut,
     date_fin |-> reservation.date_fin,
     prix_final |-> reservation.prix_final,
     statut |-> reservation.statut]

setattr_fields(reservation, update_data) ==
    [car_id |-> reservation.car_id,
     user_id |-> reservation.user_id,
     type_transaction |->
         IF IsWord(update_data.type_transaction)
         THEN update_data.type_transaction
         ELSE reservation.type_transaction,
     date_debut |->
         IF IsValue(update_data.date_debut)
         THEN update_data.date_debut
         ELSE reservation.date_debut,
     date_fin |->
         IF IsValue(update_data.date_fin)
         THEN update_data.date_fin
         ELSE reservation.date_fin,
     prix_final |->
         IF IsValue(update_data.prix_final)
         THEN update_data.prix_final
         ELSE reservation.prix_final,
     statut |->
         IF IsWord(update_data.statut)
         THEN update_data.statut
         ELSE reservation.statut]

\* update_reservation loads reservation.car (joinedload) and assigns none of
\* its attributes: the cars its commit writes are the cars it read.
mutUpdateFollowsType(db_cars, reservation, updated) ==
    [db_cars EXCEPT ![reservation.car_id].disponibilite =
        IF updated.type_transaction = "vente" THEN "vendu" ELSE "loue"]

cars_after_update(db_cars, reservation, updated) == db_cars

\* ReservationService.update_reservation.
ReservationService_update_reservation(db, reservation_id, update_data, user_id, user_role, commitOk) ==
    IF reservation_id \notin DOMAIN db.reservations
    THEN Outcome("NotFound", db, reservation_id)
    ELSE
        LET reservation == db.reservations[reservation_id]
        IN  IF update_forbidden(user_role, reservation.user_id, user_id)
            THEN Outcome("PermissionError", db, reservation_id)
            ELSE IF update_refused(user_role, reservation.statut)
                 THEN Outcome("InvalidState", db, reservation_id)
            ELSE IF /\ IsValue(update_data.prix_final)
                    /\ update_data.prix_final <= 0
                 THEN Outcome("ValidationError", db, reservation_id)
            ELSE
                \* setattr(reservation, field, value) for every key sent with
                \* a value that is not None
                LET updated == setattr_fields(reservation, update_data)
                    \* any(field in update_dict ...): the key was sent
                    dates_touched ==
                        \/ update_data.date_debut # Unset
                        \/ update_data.date_fin # Unset
                        \/ update_data.type_transaction # "unset"
                    staged == DB(cars_after_update(db.cars, reservation, updated),
                                 [db.reservations EXCEPT ![reservation_id] = updated],
                                 db.nextId)
                IN  IF /\ dates_touched
                       /\ ~validate_reservation_dates(updated.date_debut,
                                                      updated.date_fin,
                                                      updated.type_transaction, Now)
                    THEN Outcome("ValidationError", db, reservation_id)
                    ELSE Outcome(IF commitOk THEN "ok" ELSE "PersistenceError",
                                 Commit(db, staged, commitOk), reservation_id)

\* PUT /api/reservations/{id} : any active user; the body is validated first.
update_reservation(db, reservation_id, update_data, user_id, commitOk) ==
    IF ~ReservationUpdateOk(update_data)
    THEN Outcome("ValidationError", db, reservation_id)
    ELSE ReservationService_update_reservation(
             db, reservation_id, update_data, user_id, Role(user_id), commitOk)

\* -------------------------------------------------------------- delete
\* DELETE /api/reservations/{id} (the route holds the logic).
\* "Seules les reservations annulees peuvent etre supprimees".
mutCompletedCanBeDeleted(statut) == statut \in ActiveStatuses

mutDeleteNeverRefused(statut) == FALSE

delete_refused(statut) == statut # "annulee"

delete_reservation(db, reservation_id, user_id, commitOk) ==
    IF ~require_vendeur(Role(user_id))
    THEN Outcome("PermissionError", db, reservation_id)
    ELSE IF reservation_id \notin DOMAIN db.reservations
         THEN Outcome("NotFound", db, reservation_id)
    ELSE IF delete_refused(db.reservations[reservation_id].statut)
         THEN Outcome("InvalidState", db, reservation_id)
    ELSE
        LET staged ==
                DB(db.cars,
                   [i \in DOMAIN db.reservations \ {reservation_id} |->
                        db.reservations[i]],
                   db.nextId)
        IN  Outcome(IF commitOk THEN "ok" ELSE "PersistenceError",
                    Commit(db, staged, commitOk), reservation_id)

\* ------------------------------------------------------ car management
\* The reservations of a car that count as active in cars_service.py.
active_reservations(db, car_id) ==
    { i \in DOMAIN db.reservations :
        /\ db.reservations[i].car_id = car_id
        /\ db.reservations[i].statut \in {"en_attente", "confirmee"} }

\* CarService.update_car, for a body that sends disponibilite or leaves it
\* out ("unset") or null; the other fields of CarUpdate are not modelled.
update_car_refused(car, disponibilite, active) ==
    /\ IsWord(disponibilite)
    /\ disponibilite # car.disponibilite
    /\ active > 0
    /\ disponibilite = "disponible"

CarService_update_car(db, car_id, disponibilite, commitOk) ==
    IF car_id \notin DOMAIN db.cars \/ ~db.cars[car_id].is_active
    THEN Outcome("NotFound", db, 0)
    ELSE IF update_car_refused(db.cars[car_id], disponibilite,
                               Cardinality(active_reservations(db, car_id)))
         THEN Outcome("InvalidState", db, 0)
    ELSE
        LET staged ==
                DB(IF IsWord(disponibilite)
                   THEN [db.cars EXCEPT ![car_id].disponibilite = disponibilite]
                   ELSE db.cars,
                   db.reservations, db.nextId)
        IN  Outcome(IF commitOk THEN "ok" ELSE "PersistenceError",
                    Commit(db, staged, commitOk), 0)

\* PUT /api/cars/{car_id} : require_vendeur, then the service.
update_car(db, car_id, disponibilite, user_id, commitOk) ==
    IF ~require_vendeur(Role(user_id)) THEN Outcome("PermissionError", db, 0)
    ELSE CarService_update_car(db, car_id, disponibilite, commitOk)

\* CarService.update_car_availability.
CarService_update_car_availability(db, car_id, availability, commitOk) ==
    IF car_id \notin DOMAIN db.cars \/ ~db.cars[car_id].is_active
    THEN Outcome("NotFound", db, 0)
    ELSE IF availability \notin {"disponible", "loue", "vendu"}
         THEN Outcome("ValidationError", db, 0)
    ELSE
        LET staged ==
                DB([db.cars EXCEPT ![car_id].disponibilite = availability],
                   db.reservations, db.nextId)
        IN  Outcome(IF commitOk THEN "ok" ELSE "PersistenceError",
                    Commit(db, staged, commitOk), 0)

\* PATCH /api/cars/{car_id}/availability : require_vendeur, the query
\* parameter against its regex, then the service.
update_car_availability(db, car_id, availability, user_id, commitOk) ==
    IF ~require_vendeur(Role(user_id)) THEN Outcome("PermissionError", db, 0)
    ELSE IF availability \notin {"disponible", "loue", "vendu"}
         THEN Outcome("ValidationError", db, 0)
    ELSE CarService_update_car_availability(db, car_id, availability, commitOk)

\* CarService.delete_car: the soft delete.
CarService_delete_car(db, car_id, commitOk) ==
    IF car_id \notin DOMAIN db.cars THEN Outcome("NotFound", db, 0)
    ELSE IF Cardinality(active_reservations(db, car_id)) > 0
         THEN Outcome("InvalidState", db, 0)
    ELSE
        LET staged == DB([db.cars EXCEPT ![car_id].is_active = FALSE],
                         db.reservations, db.nextId)
        IN  Outcome(IF commitOk THEN "ok" ELSE "PersistenceError",
                    Commit(db, staged, commitOk), 0)

\* DELETE /api/cars/{car_id} : require_vendeur, then the service.
delete_car(db, car_id, user_id, commitOk) ==
    IF ~require_vendeur(Role(user_id)) THEN Outcome("PermissionError", db, 0)
    ELSE CarService_delete_car(db, car_id, commitOk)

\* ------------------------------------------------------------- requests
\* A period is <<date_debut, date_fin>>.
AllPeriods == Dates \X (Dates \cup {Unset, Null})

\* One period per branch of the date checks: a valid rental, no end date
\* (left out, sent null), a start in the past, an end equal to the start.
CorePeriods == {<<Now, Now + 1>>, <<Now, Unset>>, <<Now, Null>>,
                <<Now - 1, Now + 1>>, <<Now, Now>>}

\* Bodies of POST /api/reservations/.  date_fin is "Null pour les ventes"
\* (models/database.py): a sale is sent without an end date.
CreateRequests(car_ids, types, periods, prices) ==
    { req \in [car_id : car_ids,
               type_transaction : types,
               date_debut : Dates,
               date_fin : Dates \cup {Unset, Null},
               prix_final : prices] :
        /\ <<req.date_debut, req.date_fin>> \in periods
        /\ req.type_transaction = "vente" => req.date_fin \in {Unset, Null} }

\* Bodies of PUT /api/reservations/{id} with at most MaxUpdateKeys keys sent.
MaxUpdateKeys == 1

KeysSent(u) ==
    (IF u.type_transaction # "unset" THEN 1 ELSE 0)
    + (IF u.date_debut # Unset THEN 1 ELSE 0)
    + (IF u.date_fin # Unset THEN 1 ELSE 0)
    + (IF u.prix_final # Unset THEN 1 ELSE 0)
    + (IF u.statut # "unset" THEN 1 ELSE 0)

UpdateRequests(types, debuts, fins, prices, statuts) ==
    { u \in [type_transaction : types \cup {"unset"},
             date_debut : debuts \cup {Unset},
             date_fin : fins \cup {Unset},
             prix_final : prices \cup {Unset},
             statut : statuts \cup {"unset"}] :
        KeysSent(u) <= MaxUpdateKeys }

\* The statut of a PATCH .../status body; "inconnu" is no ReservationStatus.
StatusRequests == ReservationStatus \cup {"inconnu"}

\* Reservation ids a request may name: every id that can have a row, and
\* one that never has.
TargetIds == 1 .. (MaxReservations + 1)

\* ---------------------------------------------------------------- state
Persisted == DB(cars, reservations, nextId)

NoBody == [none |-> TRUE]

NoRequest == [op |-> "none", user |-> 0, rid |-> 0, body |-> NoBody, result |-> "none"]

\* Two requests in flight, each with the session get_db gave it.
Sessions == {1, 2}

NoSession == [pc |-> "idle", user |-> 0, body |-> NoBody, view |-> NoBody,
              result |-> "none"]

Init ==
    /\ cars = [c \in CarIds |-> [disponibilite |-> "disponible", is_active |-> TRUE]]
    /\ reservations = <<>>
    /\ nextId = 1
    /\ last = NoRequest
    /\ sess = [p \in Sessions |-> NoSession]
    /\ history = <<>>

\* Requests are handled one after the other: get_db opens a session, the
\* handler runs to its response, and the session is closed.
Idle == last.op = "none"

\* The handler's response: its transaction is over and `last` holds the
\* request (who sent it, the reservation id of its path or of the row it
\* created, its body) and what the caller is told.
Respond(op, user_id, body, out) ==
    /\ cars' = out.db.cars
    /\ reservations' = out.db.reservations
    /\ nextId' = out.db.nextId
    /\ last' = [op |-> op, user |-> user_id, rid |-> out.rid, body |-> body,
                result |-> out.result]
    /\ UNCHANGED <<sess, history>>

\* get_db: finally db.close(), after the response.
CloseSession ==
    /\ ~Idle
    /\ last' = NoRequest
    /\ UNCHANGED <<cars, reservations, nextId, sess, history>>

Create(user_id, req, commitOk) ==
    LET out == create_reservation(Persisted, req, user_id, commitOk)
    IN  /\ out.db.nextId <= MaxReservations + 1
        /\ Respond("create", user_id, req, out)

TransitionStatus(user_id, rid, new_status, commitOk) ==
    Respond("transition_status", user_id, [statut |-> new_status],
            update_reservation_status(Persisted, rid, new_status, user_id, commitOk))

Cancel(user_id, rid, commitOk) ==
    Respond("cancel", user_id, NoBody,
            cancel_reservation(Persisted, rid, user_id, Role(user_id), commitOk))

Update(user_id, rid, update_data, commitOk) ==
    Respond("update", user_id, update_data,
            update_reservation(Persisted, rid, update_data, user_id, commitOk))

Delete(user_id, rid, commitOk) ==
    Respond("delete", user_id, NoBody,
            delete_reservation(Persisted, rid, user_id, commitOk))

\* ------------------------------------------- Spec: every operation
\* Both users, both cars and a car id without a row, both transaction types,
\* the core periods.  The bodies of PUT send any statut, type and price; their
\* date keys are the ones the date check refuses or skips (a start in the
\* past, a null), so that stored periods stay the created ones.  SpecRental
\* below edits dates.
CoreCreateRequests ==
    CreateRequests(CarIds \cup {NoSuchCar}, TransactionType, CorePeriods, Prices)

CoreUpdateRequests ==
    UpdateRequests(TransactionType \cup {"null"}, {Null, Now - 1}, {Null},
                   Prices, ReservationStatus)

DoCreate ==
    /\ Idle
    /\ \E u \in Users, req \in CoreCreateRequests, ok \in BOOLEAN : Create(u, req, ok)
DoTransitionStatus ==
    /\ Idle
    /\ \E u \in Users, rid \in TargetIds, st \in StatusRequests, ok \in BOOLEAN :
        TransitionStatus(u, rid, st, ok)
DoCancel ==
    /\ Idle
    /\ \E u \in Users, rid \in TargetIds, ok \in BOOLEAN : Cancel(u, rid, ok)
DoUpdate ==
    /\ Idle
    /\ \E u \in Users, rid \in TargetIds, upd \in CoreUpdateRequests, ok \in BOOLEAN :
        Update(u, rid, upd, ok)
DoDelete ==
    /\ Idle
    /\ \E u \in Users, rid \in TargetIds, ok \in BOOLEAN : Delete(u, rid, ok)

Next ==
    \/ DoCreate
    \/ DoTransitionStatus
    \/ DoCancel
    \/ DoUpdate
    \/ DoDelete
    \/ CloseSession

Spec == Init /\ [][Next]_vars

\* ------------------- SpecNoUpdate: the same without PUT /{id}
NextNoUpdate ==
    \/ DoCreate
    \/ DoTransitionStatus
    \/ DoCancel
    \/ DoDelete
    \/ CloseSession

SpecNoUpdate == Init /\ [][NextNoUpdate]_vars

\* ---------------- SpecRental: rentals, their periods and their edits
\* Every period over Dates, on every car, rentals only, asked by a client at
\* a price the schema admits; the bodies of PUT edit date_debut, date_fin and
\* statut.  Commits succeed.
RentalCreateRequests ==
    CreateRequests(CarIds, {"location"}, AllPeriods, Prices \ {0})

RentalUpdateRequests ==
    UpdateRequests({}, Dates, Dates, {}, ReservationStatus)

DoCreateRental ==
    /\ Idle
    /\ \E u \in Clients, req \in RentalCreateRequests : Create(u, req, TRUE)
DoTransitionRental ==
    /\ Idle
    /\ \E u \in Vendeurs, rid \in ReservationIds, st \in ReservationStatus :
        TransitionStatus(u, rid, st, TRUE)
DoCancelRental ==
    /\ Idle
    /\ \E u \in Users, rid \in ReservationIds : Cancel(u, rid, TRUE)
DoUpdateRental ==
    /\ Idle
    /\ \E u \in Users, rid \in ReservationIds, upd \in RentalUpdateRequests :
        Update(u, rid, upd, TRUE)

NextRental ==
    \/ DoCreateRental
    \/ DoTransitionRental
    \/ DoCancelRental
    \/ DoUpdateRental
    \/ CloseSession

SpecRental == Init /\ [][NextRental]_vars

\* ------------- SpecConcurrent: two POST /api/reservations/ at once
\* Each request has its own session (SessionLocal, no isolation level set, no
\* with_for_update): the first SELECT of create_reservation fixes the read
\* view of its transaction, the checks run on that view, and db.commit()
\* flushes the INSERT of the reservation and the UPDATE of the car's
\* disponibilite.  The store orders the two commits; neither the plain SELECTs
\* nor the UPDATE ... WHERE id = ... makes the later one fail.
ConcurrentCreateRequests ==
    CreateRequests(CarIds, TransactionType, CorePeriods, Prices \ {0})

\* The request arrives and its first query runs.
SessionStart(p) ==
    /\ sess[p].pc = "idle"
    /\ \E u \in Users, req \in ConcurrentCreateRequests :
          sess' = [sess EXCEPT ![p] =
                      [pc |-> "reading", user |-> u, body |-> req,
                       view |-> Persisted, result |-> "none"]]
    /\ UNCHANGED <<cars, reservations, nextId, last, history>>

\* The checks of create_reservation, on the rows the session read.
SessionDecide(p) ==
    /\ sess[p].pc = "reading"
    /\ LET out == create_reservation(sess[p].view, sess[p].body, sess[p].user, TRUE)
       IN  sess' = [sess EXCEPT ![p].pc = IF out.result = "ok" THEN "committing"
                                          ELSE "done",
                                ![p].result = IF out.result = "ok" THEN "none"
                                              ELSE out.result]
    /\ UNCHANGED <<cars, reservations, nextId, last, history>>

\* db.add(db_reservation), car.disponibilite = ..., db.commit().
SessionCommit(p) ==
    /\ sess[p].pc = "committing"
    /\ nextId <= MaxReservations
    /\ LET req == sess[p].body
           db_reservation ==
               [car_id |-> req.car_id,
                user_id |-> sess[p].user,
                type_transaction |-> req.type_transaction,
                date_debut |-> req.date_debut,
                date_fin |-> Stored(req.date_fin),
                prix_final |-> req.prix_final,
                statut |-> "en_attente"]
       IN  /\ reservations' = reservations @@ (nextId :> db_reservation)
           /\ nextId' = nextId + 1
           /\ cars' = [cars EXCEPT ![req.car_id].disponibilite =
                          disponibilite_after_create(
                              req.type_transaction,
                              sess[p].view.cars[req.car_id].disponibilite)]
    /\ sess' = [sess EXCEPT ![p].pc = "done", ![p].result = "ok"]
    /\ UNCHANGED <<last, history>>

NextConcurrent ==
    \E p \in Sessions :
        \/ SessionStart(p)
        \/ SessionDecide(p)
        \/ SessionCommit(p)

SpecConcurrent == Init /\ [][NextConcurrent]_vars

\* ------------- SpecCars: reservations and the management of cars
\* Clients create sales and rentals of the core periods, on both cars and on
\* a car id without a row; the vendeur moves reservations; both users cancel;
\* the car routes are sent by both users, with every disponibilite.
CarRequests == [car_id : CarIds \cup {NoSuchCar},
                disponibilite : CarAvailability]

DoCreateOnCars ==
    /\ Idle
    /\ \E u \in Clients, req \in CoreCreateRequests : Create(u, req, TRUE)
DoTransitionOnCars ==
    /\ Idle
    /\ \E u \in Vendeurs, rid \in ReservationIds, st \in ReservationStatus :
        TransitionStatus(u, rid, st, TRUE)
DoCancelOnCars ==
    /\ Idle
    /\ \E u \in Users, rid \in ReservationIds : Cancel(u, rid, TRUE)
DoUpdateCar ==
    /\ Idle
    /\ \E u \in Users, req \in CarRequests, ok \in BOOLEAN :
        Respond("update_car", u, req,
                   update_car(Persisted, req.car_id, req.disponibilite, u, ok))
DoUpdateCarAvailability ==
    /\ Idle
    /\ \E u \in Users, req \in CarRequests, ok \in BOOLEAN :
        Respond("update_car_availability", u, req,
                   update_car_availability(Persisted, req.car_id,
                                           req.disponibilite, u, ok))
DoDeleteCar ==
    /\ Idle
    /\ \E u \in Users, c \in CarIds \cup {NoSuchCar}, ok \in BOOLEAN :
        Respond("delete_car", u, [car_id |-> c],
                   delete_car(Persisted, c, u, ok))

NextCars ==
    \/ DoCreateOnCars
    \/ DoTransitionOnCars
    \/ DoCancelOnCars
    \/ DoUpdateCar
    \/ DoUpdateCarAvailability
    \/ DoDeleteCar
    \/ CloseSession

SpecCars == Init /\ [][NextCars]_vars

\* ------------- SpecSequential: create, transition_status and cancel only
\* Sales and rentals of every period over Dates, by both users, one request
\* after the other; no PUT /{id}, no delete, no car route.
SequentialCreateRequests ==
    CreateRequests(CarIds, TransactionType, AllPeriods, Prices \ {0})

DoCreateSequential ==
    /\ Idle
    /\ \E u \in Users, req \in SequentialCreateRequests, ok \in BOOLEAN :
        Create(u, req, ok)

NextSequential ==
    \/ DoCreateSequential
    \/ DoTransitionStatus
    \/ DoCancel
    \/ CloseSession

SpecSequential == Init /\ [][NextSequential]_vars

\* ------------- SpecConcurrentStatus: cancel and completion at once
\* A client creates a sale or a rental and the vendeur confirms it, one
\* request after the other.  Then a cancel and a PATCH .../status to terminee
\* are handled at the same time, each in its own session: the first query
\* fixes the rows the session reads, the handler decides on those rows, and
\* db.commit() flushes one UPDATE per row with the attributes the handler
\* changed (UPDATE ... SET statut = ... WHERE id = ..., no version column,
\* no with_for_update).  The store orders the commits; the later UPDATE
\* overwrites the earlier one.
StatusCreateRequests ==
    CreateRequests(CarIds, TransactionType, {<<Now, Now + 1>>, <<Now, Unset>>},
                   Prices \ {0})

StatusSessionRequests ==
    [op : {"cancel"}, rid : ReservationIds, statut : {"annulee"}]
    \cup [op : {"transition_status"}, rid : ReservationIds, statut : {"terminee"}]

SessionsIdle == \A p \in Sessions : sess[p].pc = "idle"

DoCreateForStatus ==
    /\ Idle /\ SessionsIdle
    /\ \E u \in Clients, req \in StatusCreateRequests : Create(u, req, TRUE)
DoConfirmForStatus ==
    /\ Idle /\ SessionsIdle
    /\ \E u \in Vendeurs, rid \in ReservationIds :
        TransitionStatus(u, rid, "confirmee", TRUE)

\* What the handler of a session's request answers on the rows db.
StatusHandler(db, user_id, req) ==
    IF req.op = "cancel"
    THEN cancel_reservation(db, req.rid, user_id, Role(user_id), TRUE)
    ELSE update_reservation_status(db, req.rid, req.statut, user_id, TRUE)

\* The request arrives and its first query runs.
StatusSessionStart(p) ==
    /\ Idle
    /\ sess[p].pc = "idle"
    /\ \E u \in Users, req \in StatusSessionRequests :
          /\ req.op = "transition_status" => u \in Vendeurs
          /\ sess' = [sess EXCEPT ![p] =
                         [pc |-> "reading", user |-> u, body |-> req,
                          view |-> Persisted, result |-> "none"]]
    /\ UNCHANGED <<cars, reservations, nextId, last, history>>

\* The handler runs on the rows the session read, up to its db.commit();
\* `view` then holds those rows with the handler's assignments.
StatusSessionDecide(p) ==
    /\ sess[p].pc = "reading"
    /\ LET out == StatusHandler(sess[p].view, sess[p].user, sess[p].body)
       IN  sess' = [sess EXCEPT
                      ![p].pc = IF out.result = "ok" THEN "committing" ELSE "done",
                      ![p].result = IF out.result = "ok" THEN "none" ELSE out.result,
                      ![p].body = [op |-> sess[p].body.op,
                                   rid |-> sess[p].body.rid,
                                   statut |-> sess[p].body.statut,
                                   read |-> sess[p].view],
                      ![p].view = out.db]
    /\ UNCHANGED <<cars, reservations, nextId, last, history>>

\* db.commit(): the attributes the handler changed are written to the rows
\* as they are now.
StatusSessionCommit(p) ==
    /\ sess[p].pc = "committing"
    /\ LET read == sess[p].body.read
           staged == sess[p].view
           rid == sess[p].body.rid
       IN  /\ reservations' =
                 [i \in DOMAIN reservations |->
                    IF /\ i \in DOMAIN staged.reservations
                       /\ staged.reservations[i].statut # read.reservations[i].statut
                    THEN [reservations[i] EXCEPT
                            !.statut = staged.reservations[i].statut]
                    ELSE reservations[i]]
           /\ cars' =
                 [c \in DOMAIN cars |->
                    IF staged.cars[c].disponibilite # read.cars[c].disponibilite
                    THEN [cars[c] EXCEPT
                            !.disponibilite = staged.cars[c].disponibilite]
                    ELSE cars[c]]
    /\ sess' = [sess EXCEPT ![p].pc = "done", ![p].result = "ok"]
    /\ UNCHANGED <<nextId, last, history>>

NextConcurrentStatus ==
    \/ DoCreateForStatus
    \/ DoConfirmForStatus
    \/ CloseSession
    \/ \E p \in Sessions :
          \/ StatusSessionStart(p)
          \/ StatusSessionDecide(p)
          \/ StatusSessionCommit(p)

SpecConcurrentStatus == Init /\ [][NextConcurrentStatus]_vars

\* ------------- SpecLive: requests that keep coming, cancels that are fair
\* Clients create, the vendeur moves reservations, both users cancel (the
\* commit of a cancel may fail) and send PUT /{id} with a statut.  The
\* server answers every request it has taken (weak fairness of
\* CloseSession), and for each reservation the cancel by its owner or by the
\* vendeur, with a commit that succeeds, is sent again and again while the
\* reservation is pending or confirmed (strong fairness: between two requests
\* the server is busy, so the cancel is not continuously enabled).
LiveUpdateRequests == UpdateRequests({}, {}, {}, {}, ReservationStatus)

DoCreateLive ==
    /\ Idle
    /\ \E u \in Clients, req \in StatusCreateRequests : Create(u, req, TRUE)
DoTransitionLive ==
    /\ Idle
    /\ \E u \in Vendeurs, rid \in ReservationIds, st \in ReservationStatus :
        TransitionStatus(u, rid, st, TRUE)
DoCancelLive ==
    /\ Idle
    /\ \E u \in Users, rid \in ReservationIds, ok \in BOOLEAN : Cancel(u, rid, ok)
DoUpdateLive ==
    /\ Idle
    /\ \E u \in Users, rid \in ReservationIds, upd \in LiveUpdateRequests :
        Update(u, rid, upd, TRUE)

\* The cancel of reservation rid, pending or confirmed, by its owner or by
\* the vendeur, with a commit that succeeds.
CancelEntitled(rid) ==
    /\ Idle
    /\ rid \in DOMAIN reservations
    /\ reservations[rid].statut \in ActiveStatuses
    /\ \E u \in Vendeurs \cup {reservations[rid].user_id} : Cancel(u, rid, TRUE)

Fairness ==
    /\ WF_vars(CloseSession)
    /\ \A rid \in ReservationIds : SF_vars(CancelEntitled(rid))

NextLive ==
    \/ DoCreateLive
    \/ DoTransitionLive
    \/ DoCancelLive
    \/ DoUpdateLive
    \/ CloseSession

SpecLive == Init /\ [][NextLive]_vars /\ Fairness

\* The same without PUT /{id}.
NextLiveNoUpdate ==
    \/ DoCreateLive
    \/ DoTransitionLive
    \/ DoCancelLive
    \/ CloseSession

SpecLiveNoUpdate == Init /\ [][NextLiveNoUpdate]_vars /\ Fairness

\* ------------- SpecScenario: the life of a rental, request by request
\* Clients ask for rentals of one period; the vendeur confirms; both users
\* cancel and delete.  Commits succeed.  Each response is appended to
\* `history` with what the request left behind: the statut of the reservation
\* it named ("absent" when it has no row) and the disponibilite of that
\* reservation's car ("none" when there is none to name).
MaxHistory == 5

ScenarioCreateRequests ==
    CreateRequests(CarIds, {"location"}, {<<Now, Now + 1>>}, Prices \ {0})

Observed(op, user_id, car_id, out) ==
    [op |-> op, user |-> user_id, rid |-> out.rid, result |-> out.result,
     statut |-> IF out.rid \in DOMAIN out.db.reservations
                THEN out.db.reservations[out.rid].statut ELSE "absent",
     car |-> IF car_id \in DOMAIN out.db.cars
             THEN out.db.cars[car_id].disponibilite ELSE "none"]

\* The car of reservation rid before the request, NoSuchCar without a row.
CarOf(rid) ==
    IF rid \in DOMAIN reservations THEN reservations[rid].car_id ELSE NoSuchCar

Record(op, user_id, body, car_id, out) ==
    /\ Len(history) < MaxHistory
    /\ cars' = out.db.cars
    /\ reservations' = out.db.reservations
    /\ nextId' = out.db.nextId
    /\ last' = [op |-> op, user |-> user_id, rid |-> out.rid, body |-> body,
                result |-> out.result]
    /\ history' = Append(history, Observed(op, user_id, car_id, out))
    /\ UNCHANGED sess

ScenarioCreate ==
    /\ Idle
    /\ \E u \in Clients, req \in ScenarioCreateRequests :
          LET out == create_reservation(Persisted, req, u, TRUE)
          IN  /\ out.db.nextId <= MaxReservations + 1
              /\ Record("create", u, req, req.car_id, out)
ScenarioConfirm ==
    /\ Idle
    /\ \E u \in Vendeurs, rid \in ReservationIds :
          Record("transition_status", u, [statut |-> "confirmee"], CarOf(rid),
                 update_reservation_status(Persisted, rid, "confirmee", u, TRUE))
ScenarioCancel ==
    /\ Idle
    /\ \E u \in Users, rid \in ReservationIds :
          Record("cancel", u, NoBody, CarOf(rid),
                 cancel_reservation(Persisted, rid, u, Role(u), TRUE))
ScenarioDelete ==
    /\ Idle
    /\ \E u \in Users, rid \in ReservationIds :
          Record("delete", u, NoBody, CarOf(rid),
                 delete_reservation(Persisted, rid, u, TRUE))

NextScenario ==
    \/ ScenarioCreate
    \/ ScenarioConfirm
    \/ ScenarioCancel
    \/ ScenarioDelete
    \/ CloseSession

SpecScenario == Init /\ [][NextScenario]_vars

TypeOK ==
    /\ cars \in [CarIds -> [disponibilite : CarAvailability, is_active : BOOLEAN]]
    /\ nextId \in 1 .. (MaxReservations + 1)
    /\ DOMAIN reservations \subseteq 1 .. (nextId - 1)
    /\ \A i \in DOMAIN reservations :
          /\ reservations[i].car_id \in CarIds
          /\ reservations[i].user_id \in Users
          /\ reservations[i].type_transaction \in TransactionType
          /\ reservations[i].statut \in ReservationStatus
          /\ reservations[i].prix_final > 0

\* ================================================================ claims
ActiveOn(car_id, type_transaction) ==
    { i \in DOMAIN reservations :
        /\ reservations[i].car_id = car_id
        /\ reservations[i].type_transaction = type_transaction
        /\ reservations[i].statut \in ActiveStatuses }

StatusEdges == {<<"en_attente", "confirmee">>, <<"en_attente", "annulee">>,
                <<"confirmee", "terminee">>, <<"confirmee", "annulee">>}

C2_StatusFollowsEdges ==
    [][\A i \in DOMAIN reservations \cap DOMAIN reservations' :
          reservations'[i].statut # reservations[i].statut =>
              <<reservations[i].statut, reservations'[i].statut>> \in StatusEdges]_vars

\* C3 as stated: a reservation becomes confirmee or terminee only by an
\* operation a vendeur invoked.
C3_OnlyVendeurConfirmsOrCompletes ==
    [][\A i \in DOMAIN reservations' :
          ( /\ reservations'[i].statut \in {"confirmee", "terminee"}
            /\ \/ i \notin DOMAIN reservations
               \/ reservations[i].statut # reservations'[i].statut )
          => Role(last'.user) = "vendeur"]_vars

\* C4 as stated: no car has two distinct pending or confirmed rentals whose
\* half-open periods overlap.
C4_NoOverlappingActiveRentals ==
    \A i, j \in DOMAIN reservations :
        ( /\ i # j
          /\ reservations[i].car_id = reservations[j].car_id
          /\ reservations[i].type_transaction = "location"
          /\ reservations[j].type_transaction = "location"
          /\ reservations[i].statut \in ActiveStatuses
          /\ reservations[j].statut \in ActiveStatuses
          /\ reservations[i].date_fin # Null
          /\ reservations[j].date_fin # Null )
        => ~( /\ reservations[i].date_debut < reservations[j].date_fin
              /\ reservations[i].date_fin > reservations[j].date_debut )

\* C7 as stated: between operations, no pending or confirmed reservation is
\* on a car whose disponibilite is disponible.
C7_NoActiveReservationOnAvailableCar ==
    \A i \in DOMAIN reservations :
        reservations[i].statut \in ActiveStatuses =>
            cars[reservations[i].car_id].disponibilite # "disponible"

C9_CreateEffect ==
    [][( /\ last'.op = "create"
         /\ last'.result = "ok" )
       => LET req == last'.body
              id == last'.rid
          IN  /\ id \notin DOMAIN reservations
              /\ DOMAIN reservations' = DOMAIN reservations \cup {id}
              /\ reservations'[id].statut = "en_attente"
              /\ reservations'[id].user_id = last'.user
              /\ reservations'[id].car_id = req.car_id
              /\ reservations'[id].type_transaction = req.type_transaction
              /\ reservations'[id].date_debut = req.date_debut
              /\ reservations'[id].date_fin = Stored(req.date_fin)
              /\ reservations'[id].prix_final = req.prix_final
              /\ \A i \in DOMAIN reservations : reservations'[i] = reservations[i]
              /\ cars[req.car_id].disponibilite = "disponible"
              /\ cars'[req.car_id].disponibilite =
                     (IF req.type_transaction = "vente" THEN "vendu" ELSE "loue")
              /\ cars'[req.car_id].is_active = cars[req.car_id].is_active
              /\ \A c \in CarIds \ {req.car_id} : cars'[c] = cars[c]]_vars

\* A sale was created on one car while the other car is rented by an earlier
\* reservation.
C9_Witness ==
    /\ last.op = "create"
    /\ last.result = "ok"
    /\ last.body.type_transaction = "vente"
    /\ cars[last.body.car_id].disponibilite = "vendu"
    /\ \E i \in DOMAIN reservations :
          /\ i # last.rid
          /\ reservations[i].car_id # last.body.car_id
          /\ reservations[i].statut \in ActiveStatuses
          /\ cars[reservations[i].car_id].disponibilite = "loue"

\* C10: when the commit of create, transition_status or cancel fails, the
\* tables are what they were before the operation.
C10_FailedCommitRollsBack ==
    [][( /\ last'.op \in {"create", "transition_status", "cancel"}
         /\ last'.result = "PersistenceError" )
       => UNCHANGED <<cars, reservations, nextId>>]_vars

\* The commit of a cancel failed: the reservation is still active and its car
\* still taken.
C10_Witness ==
    /\ last.op = "cancel"
    /\ last.result = "PersistenceError"
    /\ last.rid \in DOMAIN reservations
    /\ reservations[last.rid].statut \in ActiveStatuses
    /\ cars[reservations[last.rid].car_id].disponibilite # "disponible"

\* A create step whose body is a rental that passes the body validation and
\* the date check, for a car that is found.
IsRentalCreateStep ==
    /\ last'.op = "create"
    /\ last'.body.type_transaction = "location"
    /\ ReservationCreateOk(last'.body)
    /\ validate_reservation_dates(last'.body.date_debut, Stored(last'.body.date_fin),
                                  "location", Now)
    /\ last'.body.car_id \in CarIds
    /\ cars[last'.body.car_id].is_active

ConfirmedRentalsOn(car_id) ==
    { i \in DOMAIN reservations :
        /\ reservations[i].car_id = car_id
        /\ reservations[i].type_transaction = "location"
        /\ reservations[i].statut = "confirmee"
        /\ reservations[i].date_fin # Null }

\* C5 as stated: with a confirmed rental [s, e) on the car, a rental request
\* that starts exactly at e is accepted and a request that overlaps [s, e) is
\* rejected.
C5_TouchingAcceptedOverlapRejected ==
    [][IsRentalCreateStep =>
          \A i \in ConfirmedRentalsOn(last'.body.car_id) :
              /\ last'.body.date_debut = reservations[i].date_fin
                     => last'.result = "ok"
              /\ ( /\ last'.body.date_debut < reservations[i].date_fin
                   /\ last'.body.date_fin > reservations[i].date_debut )
                     => last'.result # "ok"]_vars

\* C5 amended: with a confirmed rental [s, e) on the car, a rental request is
\* refused with InvalidState while the car is not disponible, touching or
\* overlapping alike; on a car that is disponible a request that overlaps
\* [s, e) is refused with ConflictError, and a request that starts exactly at
\* e and overlaps no other pending or confirmed rental of the car is accepted.
C5_UnavailableFirstThenHalfOpenOverlap ==
    [][IsRentalCreateStep =>
          \A i \in ConfirmedRentalsOn(last'.body.car_id) :
              LET req == last'.body
                  overlapping(j) ==
                      /\ reservations[j].date_fin # Null
                      /\ reservations[j].date_debut < req.date_fin
                      /\ reservations[j].date_fin > req.date_debut
              IN  IF cars[req.car_id].disponibilite # "disponible"
                  THEN /\ last'.result = "InvalidState"
                       /\ UNCHANGED <<cars, reservations, nextId>>
                  ELSE /\ overlapping(i) =>
                            /\ last'.result = "ConflictError"
                            /\ UNCHANGED <<cars, reservations, nextId>>
                       /\ ( /\ req.date_debut = reservations[i].date_fin
                            /\ \A j \in ActiveOn(req.car_id, "location") :
                                  ~overlapping(j) )
                            => last'.result = "ok"]_vars

\* A rental that starts exactly where the car's confirmed rental ends was
\* asked for and refused with InvalidState: the car is rented.
C5_Witness ==
    /\ last.op = "create"
    /\ last.result = "InvalidState"
    /\ last.body.type_transaction = "location"
    /\ last.body.date_fin > last.body.date_debut
    /\ last.body.date_debut >= Now
    /\ cars[last.body.car_id].disponibilite = "loue"
    /\ \E i \in ConfirmedRentalsOn(last.body.car_id) :
          reservations[i].date_fin = last.body.date_debut

\* C6 as stated: two create requests for the same available car handled at
\* the same time are serialized: at most one succeeds, and the car never has
\* two pending or confirmed reservations.
C6_ConcurrentCreatesSerialized ==
    /\ \A c \in CarIds :
          Cardinality({ i \in DOMAIN reservations :
                          /\ reservations[i].car_id = c
                          /\ reservations[i].statut \in ActiveStatuses }) <= 1
    /\ ~( /\ sess[1].result = "ok"
          /\ sess[2].result = "ok"
          /\ sess[1].body.car_id = sess[2].body.car_id )

\* A transition_status step that reaches the service: sent by a vendeur, for
\* a reservation that is there, with a statut that is a ReservationStatus.
IsTransitionStep ==
    /\ last'.op = "transition_status"
    /\ last'.user \in Vendeurs
    /\ last'.rid \in DOMAIN reservations
    /\ last'.body.statut \in ReservationStatus

\* C11: transition_status by a vendeur on an existing reservation succeeds
\* (its commit not failing) iff <<current statut, new statut>> is one of the
\* four edges, and then the reservation has the new statut; for every other
\* pair it answers InvalidTransition and no reservation and no car changes.
C11_TransitionSucceedsIffEdge ==
    [][IsTransitionStep =>
         LET id == last'.rid
             edge == <<reservations[id].statut, last'.body.statut>> \in StatusEdges
         IN  /\ edge => last'.result \in {"ok", "PersistenceError"}
             /\ last'.result = "ok" =>
                    /\ edge
                    /\ reservations'[id].statut = last'.body.statut
             /\ ~edge => /\ last'.result = "InvalidTransition"
                         /\ UNCHANGED <<cars, reservations, nextId>>]_vars

\* A pending sale was asked to become terminee: InvalidTransition, the
\* reservation still pending and its car still sold.
C11_Witness ==
    /\ last.op = "transition_status"
    /\ last.user \in Vendeurs
    /\ last.result = "InvalidTransition"
    /\ last.body.statut = "terminee"
    /\ last.rid \in DOMAIN reservations
    /\ reservations[last.rid].statut = "en_attente"
    /\ reservations[last.rid].type_transaction = "vente"
    /\ cars[reservations[last.rid].car_id].disponibilite = "vendu"

\* C12: transition_status to annulee or terminee on a reservation that is
\* already annulee or terminee answers InvalidTransition and changes nothing,
\* and the same call sent again right after is answered InvalidTransition
\* too, whether or not its commit would fail.
C12_TerminalTargetOnTerminalFailsTwice ==
    [][( /\ IsTransitionStep
         /\ reservations[last'.rid].statut \in {"annulee", "terminee"}
         /\ last'.body.statut \in {"annulee", "terminee"} )
       => ( /\ last'.result = "InvalidTransition"
            /\ UNCHANGED <<cars, reservations, nextId>>
            /\ \A ok \in BOOLEAN :
                  LET again == update_reservation_status(
                                   DB(cars', reservations', nextId'), last'.rid,
                                   last'.body.statut, last'.user, ok)
                  IN  /\ again.result = "InvalidTransition"
                      /\ again.db = DB(cars', reservations', nextId') )]_vars

\* A cancelled reservation was asked to become annulee again and was answered
\* InvalidTransition; its car, taken again by a later reservation, is not
\* disponible.
C12_Witness ==
    /\ last.op = "transition_status"
    /\ last.user \in Vendeurs
    /\ last.result = "InvalidTransition"
    /\ last.body.statut = "annulee"
    /\ last.rid \in DOMAIN reservations
    /\ reservations[last.rid].statut = "annulee"
    /\ cars[reservations[last.rid].car_id].disponibilite # "disponible"

\* C13: transition_status sent by a client answers PermissionError, for every
\* reservation id, with or without a row, and every statut sent, and changes
\* no reservation and no car.
C13_ClientTransitionIsPermissionError ==
    [][( /\ last'.op = "transition_status"
         /\ last'.user \in Clients )
       => ( /\ last'.result = "PermissionError"
            /\ UNCHANGED <<cars, reservations, nextId>> )]_vars

\* A client asked to confirm a pending reservation: PermissionError, and the
\* reservation is still pending.
C13_Witness ==
    /\ last.op = "transition_status"
    /\ last.user \in Clients
    /\ last.result = "PermissionError"
    /\ last.body.statut = "confirmee"
    /\ last.rid \in DOMAIN reservations
    /\ reservations[last.rid].statut = "en_attente"

\* C14: a successful transition_status sets the reservation's car to
\* disponible exactly when the new statut is annulee, or is terminee on a
\* rental; otherwise that car keeps its disponibilite; no other car changes.
C14_TransitionCarEffect ==
    [][( /\ IsTransitionStep
         /\ last'.result = "ok" )
       => LET reservation == reservations[last'.rid]
              c == reservation.car_id
              new_status == last'.body.statut
              frees == \/ new_status = "annulee"
                       \/ /\ new_status = "terminee"
                          /\ reservation.type_transaction = "location"
          IN  /\ cars'[c].disponibilite =
                     (IF frees THEN "disponible" ELSE cars[c].disponibilite)
              /\ cars'[c].is_active = cars[c].is_active
              /\ \A o \in CarIds \ {c} : cars'[o] = cars[o]]_vars

\* A rental was completed and its car is disponible again, while the other
\* car is still taken.
C14_Witness ==
    /\ last.op = "transition_status"
    /\ last.result = "ok"
    /\ last.body.statut = "terminee"
    /\ last.rid \in DOMAIN reservations
    /\ reservations[last.rid].type_transaction = "location"
    /\ cars[reservations[last.rid].car_id].disponibilite = "disponible"
    /\ \E o \in CarIds \ {reservations[last.rid].car_id} :
          cars[o].disponibilite # "disponible"

\* A cancel step for a reservation that is there.
IsCancelStep ==
    /\ last'.op = "cancel"
    /\ last'.rid \in DOMAIN reservations

\* C15: a successful cancel is one of a pending or confirmed reservation; it
\* sets the reservation's statut to annulee and its car to disponible,
\* for a rental and for a sale alike, and changes nothing else.
C15_CancelEffect ==
    [][( /\ IsCancelStep
         /\ last'.result = "ok" )
       => LET id == last'.rid
              c == reservations[id].car_id
          IN  /\ reservations[id].statut \in ActiveStatuses
              /\ reservations' = [reservations EXCEPT ![id].statut = "annulee"]
              /\ cars' = [cars EXCEPT ![c].disponibilite = "disponible"]]_vars

\* A sale was cancelled and its car, sold until then, is disponible.
C15_Witness ==
    /\ last.op = "cancel"
    /\ last.result = "ok"
    /\ last.rid \in DOMAIN reservations
    /\ reservations[last.rid].statut = "annulee"
    /\ reservations[last.rid].type_transaction = "vente"
    /\ cars[reservations[last.rid].car_id].disponibilite = "disponible"

\* C16: cancel answers PermissionError, and changes nothing, exactly when
\* the sender is a client and the reservation belongs to someone else; a
\* vendeur cancelling any pending or confirmed reservation and a client
\* cancelling their own get through to the commit.
C16_CancelPermission ==
    [][IsCancelStep =>
         LET reservation == reservations[last'.rid]
             stranger == /\ last'.user \in Clients
                         /\ reservation.user_id # last'.user
         IN  /\ stranger => /\ last'.result = "PermissionError"
                            /\ UNCHANGED <<cars, reservations, nextId>>
             /\ ~stranger => last'.result # "PermissionError"
             /\ (~stranger /\ reservation.statut \in ActiveStatuses)
                    => last'.result \in {"ok", "PersistenceError"}]_vars

\* A client asked to cancel a pending reservation of another user:
\* PermissionError, the reservation still pending and its car still taken.
C16_Witness ==
    /\ last.op = "cancel"
    /\ last.user \in Clients
    /\ last.result = "PermissionError"
    /\ last.rid \in DOMAIN reservations
    /\ reservations[last.rid].user_id # last.user
    /\ reservations[last.rid].statut \in ActiveStatuses
    /\ cars[reservations[last.rid].car_id].disponibilite # "disponible"

\* C17: cancel, by a user allowed to cancel it, of a reservation that is
\* already annulee or terminee answers InvalidState and changes no
\* reservation and no car.
C17_CancelOfTerminalIsInvalidState ==
    [][( /\ IsCancelStep
         /\ ~( /\ last'.user \in Clients
               /\ reservations[last'.rid].user_id # last'.user )
         /\ reservations[last'.rid].statut \in {"annulee", "terminee"} )
       => ( /\ last'.result = "InvalidState"
            /\ UNCHANGED <<cars, reservations, nextId>> )]_vars

\* The cancel of a completed sale was answered InvalidState and the car is
\* still sold.
C17_Witness ==
    /\ last.op = "cancel"
    /\ last.result = "InvalidState"
    /\ last.rid \in DOMAIN reservations
    /\ reservations[last.rid].statut = "terminee"
    /\ reservations[last.rid].type_transaction = "vente"
    /\ cars[reservations[last.rid].car_id].disponibilite = "vendu"

\* C18: a delete that succeeds removes a reservation whose statut was
\* annulee, and only that row; a delete by a vendeur of a reservation that is
\* en_attente, confirmee or terminee answers InvalidState and changes nothing.
C18_DeleteOnlyCancelled ==
    [][last'.op = "delete" =>
         LET id == last'.rid
         IN  /\ last'.result = "ok" =>
                    /\ id \in DOMAIN reservations
                    /\ reservations[id].statut = "annulee"
                    /\ DOMAIN reservations' = DOMAIN reservations \ {id}
                    /\ \A i \in DOMAIN reservations' :
                          reservations'[i] = reservations[i]
                    /\ UNCHANGED cars
             /\ ( /\ last'.user \in Vendeurs
                  /\ id \in DOMAIN reservations
                  /\ reservations[id].statut # "annulee" )
                => ( /\ last'.result = "InvalidState"
                     /\ UNCHANGED <<cars, reservations, nextId>> )]_vars

\* The delete of a completed reservation was answered InvalidState and the
\* row is still there.
C18_Witness ==
    /\ last.op = "delete"
    /\ last.result = "InvalidState"
    /\ last.rid \in DOMAIN reservations
    /\ reservations[last.rid].statut = "terminee"

\* C20: an update sent by a client for a reservation of another user, or for
\* a reservation that is not en_attente, fails and changes nothing; when its
\* body is a ReservationUpdate the answer is PermissionError for another
\* user's reservation and InvalidState for an own reservation not en_attente.
C20_ClientUpdateOnlyOwnPending ==
    [][( /\ last'.op = "update"
         /\ last'.user \in Clients
         /\ last'.rid \in DOMAIN reservations )
       => LET reservation == reservations[last'.rid]
              own == reservation.user_id = last'.user
          IN  /\ (~own \/ reservation.statut # "en_attente")
                    => /\ last'.result # "ok"
                       /\ UNCHANGED <<cars, reservations, nextId>>
              /\ (ReservationUpdateOk(last'.body) /\ ~own)
                    => last'.result = "PermissionError"
              /\ ( /\ ReservationUpdateOk(last'.body)
                   /\ own
                   /\ reservation.statut # "en_attente" )
                    => last'.result = "InvalidState"]_vars

\* A client asked to set their own confirmed reservation to annulee by an
\* update: InvalidState, and the reservation is still confirmed.
C20_Witness ==
    /\ last.op = "update"
    /\ last.user \in Clients
    /\ last.result = "InvalidState"
    /\ last.body.statut = "annulee"
    /\ last.rid \in DOMAIN reservations
    /\ reservations[last.rid].user_id = last.user
    /\ reservations[last.rid].statut = "confirmee"

\* The entries of history strictly between positions a and b that name
\* reservation id.
Between(id, a, b) == { i \in (a + 1) .. (b - 1) : history[i].rid = id }

\* Between a and b reservation id was only asked to be deleted.
OnlyDeletes(id, a, b) == \A i \in Between(id, a, b) : history[i].op = "delete"

\* Every request between a and b that named reservation id failed and left
\* it pending or confirmed.
AttemptsFailed(id, a, b) ==
    \A i \in Between(id, a, b) :
        /\ history[i].result # "ok"
        /\ history[i].statut \in ActiveStatuses

\* C19: along create rental R, confirm R, cancel R: the create leaves R
\* en_attente and its car loue; the confirm leaves R confirmee and the car
\* loue; the cancel (by the owner or the vendeur) leaves R annulee and the
\* car disponible; every delete of R asked before the cancel fails and leaves
\* R there; the vendeur's delete of R after the cancel succeeds and R is gone.
C19_ScenarioTrace ==
    \A k \in DOMAIN history :
        (history[k].op = "create" /\ history[k].result = "ok") =>
            LET R == history[k].rid
                n == Len(history)
            IN  /\ history[k].statut = "en_attente"
                /\ history[k].car = "loue"
                /\ \A j \in (k + 1) .. n :
                      ( /\ history[j].op = "transition_status"
                        /\ history[j].rid = R
                        /\ OnlyDeletes(R, k, j) )
                      => /\ AttemptsFailed(R, k, j)
                         /\ history[j].result = "ok"
                         /\ history[j].statut = "confirmee"
                         /\ history[j].car = "loue"
                         /\ \A l \in (j + 1) .. n :
                               ( /\ history[l].op = "cancel"
                                 /\ history[l].rid = R
                                 /\ history[l].user \in Vendeurs \cup {history[k].user}
                                 /\ OnlyDeletes(R, j, l) )
                               => /\ AttemptsFailed(R, j, l)
                                  /\ history[l].result = "ok"
                                  /\ history[l].statut = "annulee"
                                  /\ history[l].car = "disponible"
                                  /\ \A m \in (l + 1) .. n :
                                        ( /\ history[m].op = "delete"
                                          /\ history[m].rid = R
                                          /\ history[m].user \in Vendeurs
                                          /\ Between(R, l, m) = {} )
                                        => /\ history[m].result = "ok"
                                           /\ history[m].statut = "absent"

\* The whole scenario has run on one reservation: created, a delete refused,
\* confirmed, cancelled, deleted; the row is gone and the car is disponible.
C19_Witness ==
    /\ Len(history) = 5
    /\ \A i \in 1 .. 5 : history[i].rid = history[1].rid
    /\ history[1].op = "create" /\ history[1].result = "ok"
    /\ history[2].op = "delete" /\ history[2].user \in Vendeurs
    /\ history[2].result = "InvalidState"
    /\ history[3].op = "transition_status" /\ history[3].result = "ok"
    /\ history[4].op = "cancel" /\ history[4].result = "ok"
    /\ history[5].op = "delete" /\ history[5].result = "ok"
    /\ history[1].rid \notin DOMAIN reservations
    /\ history[5].car = "disponible"
    /\ \A c \in CarIds : cars[c].disponibilite = "disponible"

\* An update step that reaches the setattr loop: the id has a row, the body
\* is a ReservationUpdate, and the sender is the vendeur or the client who
\* owns the reservation while it is en_attente.
IsUpdateStep ==
    /\ last'.op = "update"
    /\ last'.rid \in DOMAIN reservations
    /\ ReservationUpdateOk(last'.body)
    /\ \/ last'.user \in Vendeurs
       \/ /\ reservations[last'.rid].user_id = last'.user
          /\ reservations[last'.rid].statut = "en_attente"

\* The field of the reservation once the update is applied: the value sent,
\* or the stored one when the key is left out or null.
AfterDate(sent, stored) == IF sent \in {Unset, Null} THEN stored ELSE sent
AfterWord(sent, stored) == IF sent \in {"unset", "null"} THEN stored ELSE sent

\* Two rentals of one car whose half-open periods overlap.
PeriodsOverlap(a, b) ==
    /\ a.car_id = b.car_id
    /\ a.date_fin # Null /\ b.date_fin # Null
    /\ a.date_debut < b.date_fin
    /\ a.date_fin > b.date_debut

\* C21: an update that sends date_debut, date_fin or type_transaction is
\* decided by the date check on the resulting reservation alone (start not
\* before now; for a rental an end, after the start): it is refused with
\* ValidationError and nothing changed when that check fails, and accepted
\* when it passes, whatever other rentals the car has.
C21_UpdateRevalidatesDatesOnly ==
    [][( /\ IsUpdateStep
         /\ \/ last'.body.date_debut # Unset
            \/ last'.body.date_fin # Unset
            \/ last'.body.type_transaction # "unset" )
       => LET r == reservations[last'.rid]
              debut == AfterDate(last'.body.date_debut, r.date_debut)
              fin == AfterDate(last'.body.date_fin, r.date_fin)
              type == AfterWord(last'.body.type_transaction, r.type_transaction)
              valid == /\ debut >= Now
                       /\ type = "location" => (fin # Null /\ fin > debut)
          IN  /\ ~valid => /\ last'.result = "ValidationError"
                           /\ UNCHANGED <<cars, reservations, nextId>>
              /\ valid => last'.result \in {"ok", "PersistenceError"}
              /\ last'.result = "ok" =>
                    /\ reservations'[last'.rid].date_debut = debut
                    /\ reservations'[last'.rid].date_fin = fin
                    /\ reservations'[last'.rid].type_transaction = type]_vars

\* An update moved a date of an active rental and was accepted although the
\* resulting period overlaps another active rental of the same car.
C21_Witness ==
    /\ last.op = "update"
    /\ last.result = "ok"
    /\ \/ last.body.date_debut \notin {Unset, Null}
       \/ last.body.date_fin \notin {Unset, Null}
    /\ last.rid \in DOMAIN reservations
    /\ reservations[last.rid].statut \in ActiveStatuses
    /\ \E j \in DOMAIN reservations \ {last.rid} :
          /\ reservations[j].statut \in ActiveStatuses
          /\ reservations[j].type_transaction = "location"
          /\ PeriodsOverlap(reservations[last.rid], reservations[j])

\* C22: a create for a car that is there and disponible answers
\* ValidationError, adds no reservation and leaves the car disponible when
\* date_debut is before now, or the type is location and date_fin is absent
\* or not after date_debut, or prix_final is not positive; a sale without
\* date_fin, starting now or later, at a positive price, gets to its commit.
C22_CreateValidation ==
    [][( /\ last'.op = "create"
         /\ last'.body.car_id \in CarIds
         /\ cars[last'.body.car_id].is_active
         /\ cars[last'.body.car_id].disponibilite = "disponible" )
       => LET req == last'.body
              invalid ==
                  \/ req.date_debut < Now
                  \/ /\ req.type_transaction = "location"
                     /\ \/ req.date_fin \in {Unset, Null}
                        \/ req.date_fin <= req.date_debut
                  \/ req.prix_final <= 0
          IN  /\ invalid => /\ last'.result = "ValidationError"
                            /\ UNCHANGED <<cars, reservations, nextId>>
              /\ ( /\ req.type_transaction = "vente"
                   /\ req.date_fin \in {Unset, Null}
                   /\ req.date_debut >= Now
                   /\ req.prix_final > 0 )
                 => last'.result \in {"ok", "PersistenceError"}]_vars

\* A rental without date_fin was asked for a car that is disponible, at a
\* positive price and starting now: ValidationError, and the car is still
\* disponible.
C22_Witness ==
    /\ last.op = "create"
    /\ last.result = "ValidationError"
    /\ last.body.type_transaction = "location"
    /\ last.body.date_fin = Unset
    /\ last.body.date_debut >= Now
    /\ last.body.prix_final > 0
    /\ last.body.car_id \in CarIds
    /\ cars[last.body.car_id].disponibilite = "disponible"

\* The completed sales of a car.
CompletedSalesOn(car_id) ==
    { i \in DOMAIN reservations :
        /\ reservations[i].car_id = car_id
        /\ reservations[i].type_transaction = "vente"
        /\ reservations[i].statut = "terminee" }

\* C23 as stated: a car that is sold by a completed sale stays sold through
\* every reservation operation, and no reservation is created on it.
C23_CompletedSaleKeepsCarSold ==
    [][\A c \in CarIds :
          (cars[c].disponibilite = "vendu" /\ CompletedSalesOn(c) # {})
          => /\ cars'[c].disponibilite = "vendu"
             /\ ~( /\ last'.op = "create"
                   /\ last'.result = "ok"
                   /\ last'.body.car_id = c )]_vars

\* C24: the car_id and the user_id of a reservation never change while it
\* has a row, whatever operation runs.
C24_CarAndOwnerNeverChange ==
    [][\A i \in DOMAIN reservations \cap DOMAIN reservations' :
          /\ reservations'[i].car_id = reservations[i].car_id
          /\ reservations'[i].user_id = reservations[i].user_id]_vars

\* The vendeur updated a reservation of a client with a new type and statut
\* written; it is still the client's and still on its car.
C24_Witness ==
    /\ last.op = "update"
    /\ last.result = "ok"
    /\ last.user \in Vendeurs
    /\ last.body.type_transaction \in TransactionType
    /\ last.rid \in DOMAIN reservations
    /\ reservations[last.rid].user_id \in Clients
    /\ reservations[last.rid].type_transaction = last.body.type_transaction
    /\ reservations[last.rid].car_id \in CarIds

C26_CarRoutesKeepReservedCarTaken ==
    [][last'.op \in {"update_car", "update_car_availability"} =>
         \A c \in CarIds :
             ( /\ active_reservations(Persisted, c) # {}
               /\ cars[c].disponibilite # "disponible" )
             => cars'[c].disponibilite # "disponible"]_vars

\* The same for update_car alone.
UpdateCarKeepsReservedCarTaken ==
    [][last'.op = "update_car" =>
         \A c \in CarIds :
             ( /\ active_reservations(Persisted, c) # {}
               /\ cars[c].disponibilite # "disponible" )
             => cars'[c].disponibilite # "disponible"]_vars

\* C27: under create, transition_status and cancel alone every car has at
\* most one pending or confirmed reservation, a car that is disponible has
\* none, and no create is answered ConflictError.
C27_OneActiveReservationPerCar ==
    /\ \A c \in CarIds :
          /\ Cardinality(active_reservations(Persisted, c)) <= 1
          /\ cars[c].disponibilite = "disponible"
                => active_reservations(Persisted, c) = {}
    /\ last.result # "ConflictError"

\* A rental was created on a car that has an earlier rental of an
\* overlapping period, cancelled or completed: the overlap query counted
\* nothing and the new rental is the car's only active reservation.
C27_Witness ==
    /\ last.op = "create"
    /\ last.result = "ok"
    /\ last.body.type_transaction = "location"
    /\ active_reservations(Persisted, last.body.car_id) = {last.rid}
    /\ \E j \in DOMAIN reservations \ {last.rid} :
          /\ reservations[j].type_transaction = "location"
          /\ reservations[j].statut \in {"annulee", "terminee"}
          /\ PeriodsOverlap(reservations[j], reservations[last.rid])

\* C28: an update changes no car: neither disponibilite nor is_active of
\* any car is written, whatever fields the body sends.
C28_UpdateLeavesCarsAlone ==
    [][last'.op = "update" => UNCHANGED cars]_vars

\* An update turned a pending rental into a sale and the car is still loue:
\* its disponibilite no longer matches its active reservation.
C28_Witness ==
    /\ last.op = "update"
    /\ last.result = "ok"
    /\ last.body.type_transaction = "vente"
    /\ last.rid \in DOMAIN reservations
    /\ reservations[last.rid].statut = "en_attente"
    /\ reservations[last.rid].type_transaction = "vente"
    /\ cars[reservations[last.rid].car_id].disponibilite = "loue"
    /\ ActiveOn(reservations[last.rid].car_id, "location") = {}

\* The sessions that answered ok to request op on reservation id.
SucceededOn(op, id) ==
    { p \in Sessions :
        /\ sess[p].pc = "done"
        /\ sess[p].result = "ok"
        /\ sess[p].body.op = op
        /\ sess[p].body.rid = id }

\* C29 as stated: of a cancel and a completion of one confirmed reservation
\* handled at the same time at most one succeeds; no completed sale has its
\* car disponible; and no reservation whose completion was answered ok is
\* annulee.
C29_CancelAndCompleteSerialized ==
    \A id \in DOMAIN reservations :
        /\ ~( SucceededOn("cancel", id) # {}
              /\ SucceededOn("transition_status", id) # {} )
        /\ ~( /\ reservations[id].statut = "terminee"
              /\ reservations[id].type_transaction = "vente"
              /\ cars[reservations[id].car_id].disponibilite = "disponible" )
        /\ ~( /\ SucceededOn("transition_status", id) # {}
              /\ reservations[id].statut = "annulee" )

\* Reservation id is pending or confirmed.
IsActive(id) ==
    /\ id \in DOMAIN reservations
    /\ reservations[id].statut \in ActiveStatuses

\* Reservation id is annulee or terminee and its car is not left loue by
\* it: the car is not loue, or another rental of the car is active.
IsSettled(id) ==
    /\ id \in DOMAIN reservations
    /\ reservations[id].statut \in {"annulee", "terminee"}
    /\ \/ cars[reservations[id].car_id].disponibilite # "loue"
       \/ ActiveOn(reservations[id].car_id, "location") # {}

\* The cancel of a pending or confirmed reservation by its owner or by the
\* vendeur gets to its commit, and when it succeeds the reservation is
\* annulee and its car disponible.
EntitledCancelSucceeds ==
    [][( /\ IsCancelStep
         /\ IsActive(last'.rid)
         /\ last'.user \in Vendeurs \cup {reservations[last'.rid].user_id} )
       => /\ last'.result \in {"ok", "PersistenceError"}
          /\ last'.result = "ok" =>
                /\ reservations'[last'.rid].statut = "annulee"
                /\ cars'[reservations[last'.rid].car_id].disponibilite
                       = "disponible"]_vars

\* C30 as stated: the cancel of every pending or confirmed reservation by its
\* owner or the vendeur succeeds unless its commit fails, and when that
\* cancel is fairly scheduled every pending or confirmed reservation
\* eventually is annulee or terminee with its car not left loue by it.
C30_ActiveReservationEventuallySettled ==
    /\ EntitledCancelSucceeds
    /\ \A id \in ReservationIds : IsActive(id) ~> IsSettled(id)

\* The part of C30 about the reservation alone: every pending or confirmed
\* reservation eventually is annulee or terminee.
ActiveReservationEventuallyTerminal ==
    \A id \in ReservationIds :
        IsActive(id) ~> ( /\ id \in DOMAIN reservations
                          /\ reservations[id].statut \in {"annulee", "terminee"} )

====
